---- MODULE Spec2Model ----
(***************************************************************************)
(* Conway's Game of Life on a bounded square grid (src/main.rs): the Grid  *)
(* resource (size, cells, prev_cells), its methods new, get, set, toggle,  *)
(* neighbors, step and get_color, and the systems that drive it (setup,    *)
(* handle_clicks, update_grid, render_grid) under the Update schedule of  *)
(* main.                                                                   *)
(*                                                                         *)
(* A Vec<bool> of length n is a function with domain 0..n-1, so that the   *)
(* index y*size+x is the index the code computes.  An index outside the    *)
(* domain is Rust's index-out-of-bounds panic.                             *)
(***************************************************************************)
EXTENDS Integers, FiniteSets, Sequences, TLC

\* ------------------------------------------------------------ constants

GRID_SIZE == 50

CLICK_RADIUS == 2

\* --------------------------------------------------------------- bounds

\* Spec: Grid::new is called with every size in 0..MaxSize, and with GRID_SIZE.
MaxSize == 2

\* Spec: writing calls made on a grid of size <= MaxSize.
MaxOps == 3

\* Spec: steps and clicks on the grid of size GRID_SIZE, after setup.
MaxAppOps == 2

\* LifeSpec: Grid::new is called with every size in 0..MaxLifeSize.
MaxLifeSize == 5

\* LifeSpec: setup writes every pattern of at most MaxLive live cells and
\* every pattern of at most MaxDead dead cells (and every 2 x 2 block and
\* every line of three cells).
MaxLive == 2

MaxDead == 2

\* LifeSpec: generations computed after setup.
MaxGens == 3

\* AppSpec: runs of the systems of the Update schedule (two frames of three).
MaxRuns == 6

\* SchedSpec: systems of the Update schedule started (two frames of three).
MaxSchedRuns == 6

VARIABLES
    pc,          \* "start": no Grid yet; "ready": a Grid exists;
                 \* "observed": a read returned; "panicked": a call panicked
    grid,        \* the Grid: [size, cells, prev_cells]
    last,        \* the call that produced this state: [op, x, y, v]
    ret,         \* what that call returned (get, get_color), or the
                 \* sprites render_grid spawned, else "none"
    pre_step,    \* history: cells as they stood before the most recent step
    nsteps,      \* history: number of step() calls so far
    nops,        \* history: number of writing calls made on the grid
    timer,       \* the TickTimer: [elapsed, times_finished_this_tick]
    sprites,     \* the entities with a Sprite component in the world
    ran,         \* the Update systems that have run in the current frame
    frames,      \* history: number of frames completed
    queued,      \* the Commands render_grid queued in the current frame,
                 \* not yet applied: [despawn, spawn]
    tasks        \* the systems in progress, each with its local variables
                 \* and, as history, the grid it found when it started

vars ==
    <<pc, grid, last, ret, pre_step, nsteps, nops, timer, sprites, ran, frames,
      queued, tasks>>

\* The state of the application around the Grid.
appvars == <<timer, sprites, ran, frames, queued, tasks>>

\* ------------------------------------------------------------ Grid

\* vec![false; n]
AllFalse(n) == [i \in 0..(n - 1) |-> FALSE]

\* cells.len()
VecLen(v) == Cardinality(DOMAIN v)

\* Grid::new with `vec![true; total_cells]` for cells.
new_all_true(n) ==
    [size |-> n, cells |-> [i \in 0..(n * n - 1) |-> TRUE],
     prev_cells |-> AllFalse(n * n)]

\* Grid::new with `let total_cells = size;`: one row of cells.
new_one_row(n) ==
    [size |-> n, cells |-> AllFalse(n), prev_cells |-> AllFalse(n)]

\* Grid::new
new(n) ==
    LET total_cells == n * n
    IN  [size |-> n, cells |-> AllFalse(total_cells),
         prev_cells |-> AllFalse(total_cells)]

\* The index expression y * self.size + x of get, set, toggle, get_color.
Index(self, x, y) == y * self.size + x

\* Whether self.cells[y * self.size + x] is a bounds-check failure.
OutOfBounds(self, x, y) == Index(self, x, y) >= VecLen(self.cells)

\* Grid::get (when the index is inside the vector)
get(self, x, y) == self.cells[Index(self, x, y)]

\* Grid::set
set(self, x, y, value) ==
    [self EXCEPT !.cells[Index(self, x, y)] = value]

\* toggle with `self.cells[index] = true` for its assignment.
toggle_on(self, x, y) ==
    [self EXCEPT !.cells[Index(self, x, y)] = TRUE]

\* Grid::toggle
toggle(self, x, y) ==
    LET index == Index(self, x, y)
    IN  [self EXCEPT !.cells[index] = ~self.cells[index]]

\* The offsets of the loops `for dx in -1..=1 { for dy in -1..=1 {`, in order.
Offsets(r) ==
    LET w == 2 * r + 1
    IN  [k \in 1..(w * w) |-> <<((k - 1) \div w) - r, ((k - 1) % w) - r>>]

RECURSIVE CountFrom(_, _, _, _, _)
\* The body of the two loops of neighbors, from the k-th offset on.
CountFrom(self, x, y, offs, k) ==
    IF k > Len(offs) THEN 0
    ELSE LET dx == offs[k][1]
             dy == offs[k][2]
             nx == x + dx
             ny == y + dy
             hit == IF dx = 0 /\ dy = 0 THEN FALSE
                    ELSE /\ nx >= 0
                         /\ ny >= 0
                         /\ nx < self.size
                         /\ ny < self.size
                         /\ get(self, nx, ny)
         IN  (IF hit THEN 1 ELSE 0) + CountFrom(self, x, y, offs, k + 1)

\* The cells around (x, y), itself included, taken modulo size.
Around(self, x, y) ==
    {<<dx, dy>> \in (-1..1) \X (-1..1) :
        self.cells[((y + dy) % self.size) * self.size + ((x + dx) % self.size)]}

\* neighbors on a torus: a position off the grid is read at the opposite edge.
neighbors_wrap(self, x, y) ==
    Cardinality(Around(self, x, y) \ {<<0, 0>>})

\* neighbors without `if dx == 0 && dy == 0 { continue; }`.
neighbors_self(self, x, y) ==
    CountFrom(self, x, y, Offsets(1), 1) + (IF get(self, x, y) THEN 1 ELSE 0)

\* Grid::neighbors
neighbors(self, x, y) == CountFrom(self, x, y, Offsets(1), 1)

\* The match of step with the values of its arms exchanged:
\* (true, 2) | (_, 3) => false, _ => true.
Rule_inverted(alive, n) == ~((alive /\ n = 2) \/ n = 3)

\* The match of step with the arm `(_, 3) => true` alone.
Rule_birth_only(alive, n) == n = 3

\* The match of step: (true, 2) | (_, 3) => true, _ => false.
Rule(alive, n) == (alive /\ n = 2) \/ n = 3

RECURSIVE InPlaceFrom(_, _)
\* The two loops of step writing into self.cells itself, from the k-th cell
\* of the iteration (x outer, y inner) on.
InPlaceFrom(self, k) ==
    IF k >= self.size * self.size THEN self.cells
    ELSE LET x == k \div self.size
             y == k % self.size
             value == Rule(get(self, x, y), neighbors(self, x, y))
         IN  InPlaceFrom([self EXCEPT !.cells[Index(self, x, y)] = value], k + 1)

\* step computed in place, with no separate buffer.
NewCells_in_place(self) == InPlaceFrom(self, 0)

\* step with `let alive = self.prev_cells[y * self.size + x];`: the liveness
\* of a cell read from the generation before.
NewCells_from_prev(self) ==
    [i \in DOMAIN self.cells |->
        Rule(self.prev_cells[i], neighbors(self, i % self.size, i \div self.size))]

\* The two loops of step, `for x in 0..self.size { for y in 0..self.size {`:
\* they write new_cells[y * self.size + x] once for every x, y < size, each
\* value computed from self, the grid as it is before the step.  The cell
\* with index i is the one with x = i % size and y = i / size.
NewCells(self) ==
    [i \in DOMAIN self.cells |->
        LET x == i % self.size
            y == i \div self.size
            alive == get(self, x, y)
            n == neighbors(self, x, y)
        IN  Rule(alive, n)]

\* step without `self.prev_cells = self.cells.clone()`.
step_keep_prev(self) ==
    [self EXCEPT !.cells = NewCells(self)]

\* Grid::step
step(self) ==
    LET new_cells == NewCells(self)
    IN  [self EXCEPT !.prev_cells = self.cells, !.cells = new_cells]

\* get_color with the arms of GREEN and RED exchanged.
get_color_swapped(self, x, y) ==
    LET current == self.cells[Index(self, x, y)]
        previous == self.prev_cells[Index(self, x, y)]
    IN  CASE ~previous /\ current -> "RED"
          [] previous /\ ~current -> "GREEN"
          [] previous /\ current -> "WHITE"
          [] ~previous /\ ~current -> "BLACK"

\* Grid::get_color
get_color(self, x, y) ==
    LET current == self.cells[Index(self, x, y)]
        previous == self.prev_cells[Index(self, x, y)]
    IN  CASE ~previous /\ current -> "GREEN"
          [] previous /\ ~current -> "RED"
          [] previous /\ current -> "WHITE"
          [] ~previous /\ ~current -> "BLACK"


\* ------------------------------------------------------------ systems

\* Window { resolution: (1000.0, 720.0) } of main.
WINDOW_WIDTH == 1000

WINDOW_HEIGHT == 720

\* f32 arithmetic.  A value of type f32 is <<m, k>>, the number m / 2^k with
\* m < 2^24 + 1; every result is rounded to 24 significant bits, ties to the
\* even one.  The operands here are whole pixels and window sizes, GRID_SIZE
\* and 1.0, all exact in f32, and every result lies in 0..GRID_SIZE.
MANTISSA == 24

\* n / 2^t rounded to the nearest integer, ties to even.
RoundShift(n, t) ==
    LET q == n \div (2 ^ t)
        r == n % (2 ^ t)
    IN  IF 2 * r > 2 ^ t \/ (2 * r = 2 ^ t /\ q % 2 = 1) THEN q + 1 ELSE q

RECURSIVE QuotientBits(_, _, _, _)
\* The long division of p / q, which is (m + r / q) / 2^k: one more bit of
\* the quotient until m has MANTISSA bits, then the rounding.
QuotientBits(m, r, k, q) ==
    IF m >= 2 ^ (MANTISSA - 1)
    THEN <<IF 2 * r > q \/ (2 * r = q /\ m % 2 = 1) THEN m + 1 ELSE m, k>>
    ELSE QuotientBits(2 * m + (IF 2 * r >= q THEN 1 ELSE 0), (2 * r) % q, k + 1, q)

\* p as f32 / q as f32, for whole p >= 0 and q > 0.
F32Div(p, q) ==
    IF p = 0 THEN <<0, 0>> ELSE QuotientBits(p \div q, p % q, 0, q)

\* 1.0 - a, for 0 <= a <= 1: a result under 0.5 is exact, and one in
\* 0.5..1 is rounded to a multiple of 2^-24.
F32OneMinus(a) ==
    LET one == 2 ^ MANTISSA
    IN  IF a[2] <= MANTISSA
        THEN <<one - a[1] * 2 ^ (MANTISSA - a[2]), MANTISSA>>
        ELSE LET t == a[2] - MANTISSA
                 q == a[1] \div (2 ^ t)
                 r == a[1] % (2 ^ t)
                 \* one - q - r / 2^t, to the nearest integer, ties to even
                 n == IF r = 0 THEN one - q
                      ELSE IF 2 * r < 2 ^ t THEN one - q
                      ELSE IF 2 * r > 2 ^ t THEN one - q - 1
                      ELSE IF (one - q) % 2 = 0 THEN one - q ELSE one - q - 1
             IN  <<n, MANTISSA>>

RECURSIVE ExcessBits(_, _)
\* The least t from t0 on with n < 2^(MANTISSA + t).
ExcessBits(n, t0) ==
    IF n < 2 ^ (MANTISSA + t0) THEN t0 ELSE ExcessBits(n, t0 + 1)

\* a * (c as f32), for a whole c with a[1] * c < 2^31.
F32Mul(a, c) ==
    LET product == a[1] * c
        t == ExcessBits(product, 0)
    IN  <<RoundShift(product, t) * 2 ^ t, a[2]>>

\* a.floor() as isize, for a >= 0.
F32Floor(a) == IF a[2] > 30 THEN 0 ELSE a[1] \div (2 ^ a[2])

\* ((cursor_position.x / window.width()) * GRID_SIZE as f32).floor() as isize
GridX(cursor_x) ==
    F32Floor(F32Mul(F32Div(cursor_x, WINDOW_WIDTH), GRID_SIZE))

\* ((1.0 - cursor_position.y / window.height()) * GRID_SIZE as f32).floor() as isize
GridY(cursor_y) ==
    F32Floor(F32Mul(F32OneMinus(F32Div(cursor_y, WINDOW_HEIGHT)), GRID_SIZE))

\* The bounds test of handle_clicks, on the centre and on every offset cell.
InGrid(nx, ny) == nx >= 0 /\ ny >= 0 /\ nx < GRID_SIZE /\ ny < GRID_SIZE

RECURSIVE ToggleFrom_paint(_, _, _, _, _)
\* The loops of handle_clicks with `grid.set(nx as usize, ny as usize, true)`
\* for the toggle: a click that paints.
ToggleFrom_paint(self, grid_x, grid_y, offs, k) ==
    IF k > Len(offs) THEN self
    ELSE LET nx == grid_x + offs[k][1]
             ny == grid_y + offs[k][2]
         IN  ToggleFrom_paint(
                 IF InGrid(nx, ny) THEN set(self, nx, ny, TRUE) ELSE self,
                 grid_x, grid_y, offs, k + 1)

RECURSIVE ToggleFrom(_, _, _, _, _)
\* The two loops over dx, dy in -CLICK_RADIUS..=CLICK_RADIUS, from the k-th
\* offset on: toggle every cell of the square that passes the bounds test.
ToggleFrom(self, grid_x, grid_y, offs, k) ==
    IF k > Len(offs) THEN self
    ELSE LET nx == grid_x + offs[k][1]
             ny == grid_y + offs[k][2]
         IN  ToggleFrom(IF InGrid(nx, ny) THEN toggle(self, nx, ny) ELSE self,
                        grid_x, grid_y, offs, k + 1)

\* Whether an offset is in the half-open range -CLICK_RADIUS..CLICK_RADIUS.
Exclusive(o) == o[1] < CLICK_RADIUS /\ o[2] < CLICK_RADIUS

\* handle_clicks with `..` for `..=` in its two loops.
handle_clicks_exclusive(self, just_pressed, has_window, cursor) ==
    IF just_pressed /\ has_window /\ cursor # <<>>
    THEN LET grid_x == GridX(cursor[1])
             grid_y == GridY(cursor[2])
         IN  IF InGrid(grid_x, grid_y)
             THEN ToggleFrom(self, grid_x, grid_y,
                             SelectSeq(Offsets(CLICK_RADIUS), Exclusive), 1)
             ELSE self
    ELSE self

\* handle_clicks without the bounds test of the centre (lines 187-190).
handle_clicks_any_centre(self, just_pressed, has_window, cursor) ==
    IF just_pressed /\ has_window /\ cursor # <<>>
    THEN ToggleFrom(self, GridX(cursor[1]), GridY(cursor[2]),
                    Offsets(CLICK_RADIUS), 1)
    ELSE self

\* window.cursor_position() is None.
NoCursor == <<>>

\* handle_clicks: the grid it leaves.  cursor is NoCursor or the pixel
\* <<x, y>> of the cursor in the primary window.
handle_clicks(self, just_pressed, has_window, cursor) ==
    IF just_pressed /\ has_window /\ cursor # NoCursor
    THEN LET grid_x == GridX(cursor[1])
             grid_y == GridY(cursor[2])
         IN  IF InGrid(grid_x, grid_y)
             THEN ToggleFrom(self, grid_x, grid_y, Offsets(CLICK_RADIUS), 1)
             ELSE self
    ELSE self

\* setup writing the pattern into prev_cells as well as into cells.
setup_both(self, alive) ==
    [self EXCEPT !.cells = [i \in DOMAIN self.cells |-> i \in alive],
                 !.prev_cells = [i \in DOMAIN self.cells |-> i \in alive]]

\* The random initial state of setup: `for x in 0..grid.size { for y in
\* 0..grid.size { grid.set(x, y, alive) } }` with alive drawn per cell; alive
\* here is the set of indices y * size + x whose draw was true.  Every cell
\* is written once, by set, which writes cells only.
setup(self, alive) ==
    [self EXCEPT !.cells = [i \in DOMAIN self.cells |-> i \in alive]]

\* render_grid with `if grid.get(x, y)` for `if color != Color::BLACK`: a
\* sprite for the cells that are live now.
render_grid_live_only(self) ==
    {[x |-> x, y |-> y, color |-> get_color(self, x, y)] :
        <<x, y>> \in {p \in (0..(self.size - 1)) \X (0..(self.size - 1)) :
                         get(self, p[1], p[2])}}

\* render_grid: the sprites it spawns, one for every cell whose colour is
\* not BLACK, at the position of the cell and of its colour.
render_grid(self) ==
    {[x |-> x, y |-> y, color |-> get_color(self, x, y)] :
        <<x, y>> \in {p \in (0..(self.size - 1)) \X (0..(self.size - 1)) :
                         get_color(self, p[1], p[2]) # "BLACK"}}

\* A Commands queue with nothing in it.
NoCommands == [despawn |-> {}, spawn |-> {}]

\* No system in progress.
NoTasks == [system \in {} |-> {}]

\* The border sprite setup spawns: it is no cell of the grid.
Border == [x |-> -1, y |-> -1, color |-> "BORDER"]

\* const TICK_RATE: f32 = 0.1: the f32 nearest to one tenth, in seconds.
TICK_RATE == F32Div(1, 10)

RECURSIVE NanosFrom(_, _, _, _)
\* (whole + rest / 2^k) * 10^digits, rounded to the nearest integer, and to
\* the even one of the two when it is half-way between them.
NanosFrom(whole, rest, k, digits) ==
    IF digits = 0
    THEN IF 2 * rest > 2 ^ k \/ (2 * rest = 2 ^ k /\ whole % 2 = 1)
         THEN whole + 1
         ELSE whole
    ELSE NanosFrom(10 * whole + (10 * rest) \div (2 ^ k), (10 * rest) % (2 ^ k),
                   k, digits - 1)

\* Duration::from_secs_f32, in nanoseconds, of an f32 below two seconds.
from_secs_f32(a) == NanosFrom(a[1] \div (2 ^ a[2]), a[1] % (2 ^ a[2]), a[2], 9)

\* The duration of the TickTimer, in nanoseconds.
TickDuration == from_secs_f32(TICK_RATE)

\* Timer::from_seconds(TICK_RATE, TimerMode::Repeating); elapsed is in
\* nanoseconds.
NewTimer == [elapsed |-> 0, times_finished_this_tick |-> 0]

\* timer.0.tick(delta) of a repeating timer: the elapsed time grows by delta;
\* when it reaches the duration the timer has finished, once for every
\* duration that fits, and the remainder stays as the elapsed time.
tick(t, delta) ==
    LET elapsed == t.elapsed + delta
    IN  IF elapsed >= TickDuration
        THEN [elapsed |-> elapsed % TickDuration,
              times_finished_this_tick |-> elapsed \div TickDuration]
        ELSE [elapsed |-> elapsed, times_finished_this_tick |-> 0]

\* Timer::just_finished
just_finished(t) == t.times_finished_this_tick > 0

RECURSIVE Steps(_, _)
\* step, k times.
Steps(self, k) == IF k = 0 THEN self ELSE Steps(step(self), k - 1)

\* update_grid with `for _ in 0..timer.0.times_finished_this_tick()` for
\* its `if`: one step for every interval the frame spans.
update_grid_catch_up(self, ticked) ==
    Steps(self, ticked.times_finished_this_tick)

\* update_grid: the grid it leaves, ticked being the timer after its tick.
update_grid(self, ticked) ==
    IF just_finished(ticked) THEN step(self) ELSE self

\* ------------------------------------------------------------ actions

NoGrid == [size |-> 0, cells |-> AllFalse(0), prev_cells |-> AllFalse(0)]

Call(op, x, y, v) == [op |-> op, x |-> x, y |-> y, v |-> v]

Init ==
    /\ pc = "start"
    /\ grid = NoGrid
    /\ last = Call("none", 0, 0, FALSE)
    /\ ret = "none"
    /\ pre_step = AllFalse(0)
    /\ nsteps = 0
    /\ nops = 0
    /\ timer = NewTimer
    /\ sprites = {}
    /\ ran = {}
    /\ frames = 0
    /\ queued = NoCommands
    /\ tasks = NoTasks

\* insert_resource(Grid::new(n))
New(n) ==
    /\ pc = "start"
    /\ pc' = "ready"
    /\ grid' = new(n)
    /\ last' = Call("new", n, 0, FALSE)
    /\ ret' = "none"
    /\ pre_step' = AllFalse(n * n)
    /\ UNCHANGED <<nsteps, nops, appvars>>

\* A call that indexes a vector out of bounds: the thread panics, and the
\* grid is as it was.
Panic(op, x, y, v) ==
    /\ pc' = "panicked"
    /\ last' = Call(op, x, y, v)
    /\ ret' = "none"
    /\ UNCHANGED <<grid, pre_step, nsteps, nops, appvars>>

\* A writing call that returns, leaving the grid g.
Written(op, x, y, v, g) ==
    /\ pc' = "ready"
    /\ grid' = g
    /\ last' = Call(op, x, y, v)
    /\ ret' = "none"
    /\ nops' = nops + 1

\* A reading call that returns r.  A read leaves the grid as it is, so the
\* calls after it reach nothing new: the model ends a run at its first read.
Read(op, x, y, r) ==
    /\ pc' = "observed"
    /\ last' = Call(op, x, y, FALSE)
    /\ ret' = r
    /\ UNCHANGED <<grid, pre_step, nsteps, nops, appvars>>

\* The startup system setup, run once on the fresh grid.
Setup(alive) ==
    /\ pc = "ready"
    /\ last.op = "new"
    /\ pc' = "ready"
    /\ grid' = setup(grid, alive)
    /\ last' = Call("setup", 0, 0, FALSE)
    /\ ret' = "none"
    /\ sprites' = {Border}
    /\ UNCHANGED <<pre_step, nsteps, nops, timer, ran, frames, queued, tasks>>

Get(x, y) ==
    /\ pc = "ready"
    /\ IF OutOfBounds(grid, x, y)
       THEN Panic("get", x, y, FALSE)
       ELSE Read("get", x, y, get(grid, x, y))

Set(x, y, value) ==
    /\ pc = "ready"
    /\ IF OutOfBounds(grid, x, y)
       THEN Panic("set", x, y, value)
       ELSE /\ Written("set", x, y, value, set(grid, x, y, value))
            /\ UNCHANGED <<pre_step, nsteps, appvars>>

Toggle(x, y) ==
    /\ pc = "ready"
    /\ IF OutOfBounds(grid, x, y)
       THEN Panic("toggle", x, y, FALSE)
       ELSE /\ Written("toggle", x, y, FALSE, toggle(grid, x, y))
            /\ UNCHANGED <<pre_step, nsteps, appvars>>

GetColor(x, y) ==
    /\ pc = "ready"
    /\ IF OutOfBounds(grid, x, y)
       THEN Panic("get_color", x, y, FALSE)
       ELSE Read("get_color", x, y, get_color(grid, x, y))

\* The system render_grid, run on its own with its commands applied: it
\* reads the colour of every cell, and the sprites are those it spawned.
RenderGrid ==
    /\ pc = "ready"
    /\ pc' = "observed"
    /\ last' = Call("render_grid", 0, 0, FALSE)
    /\ sprites' = render_grid(grid)
    /\ ret' = sprites'
    /\ UNCHANGED <<grid, pre_step, nsteps, nops, timer, ran, frames, queued,
                   tasks>>

Step ==
    /\ pc = "ready"
    /\ Written("step", 0, 0, FALSE, step(grid))
    /\ pre_step' = grid.cells
    /\ nsteps' = nsteps + 1
    /\ UNCHANGED appvars

\* The system handle_clicks.  It runs on the resource main inserted,
\* Grid::new(GRID_SIZE).  last records the grid cell of the cursor, and
\* whether the system reached its bounds test.
HandleClicks(just_pressed, has_window, cursor) ==
    /\ pc = "ready"
    /\ grid.size = GRID_SIZE
    /\ LET reached == just_pressed /\ has_window /\ cursor # NoCursor
       IN  Written("handle_clicks",
                   IF reached THEN GridX(cursor[1]) ELSE 0,
                   IF reached THEN GridY(cursor[2]) ELSE 0,
                   reached,
                   handle_clicks(grid, just_pressed, has_window, cursor))
    /\ UNCHANGED <<pre_step, nsteps, appvars>>

\* The systems main adds to the Update schedule that use the Grid.
Systems == {"update_grid", "render_grid", "handle_clicks"}

\* The schedule runs every system once in a frame, in an order it chooses;
\* update_grid and handle_clicks take ResMut<Grid> and render_grid Res<Grid>,
\* so no two of them run at the same time.
RunInFrame(system) ==
    /\ ran' = ran \cup {system}
    /\ UNCHANGED frames

\* The system update_grid, in a frame whose time.delta() is delta (ns).
FrameUpdateGrid(delta) ==
    /\ pc = "ready"
    /\ grid.size = GRID_SIZE
    /\ "update_grid" \notin ran
    /\ LET ticked == tick(timer, delta)
       IN  /\ timer' = ticked
           /\ grid' = update_grid(grid, ticked)
           /\ last' = Call("update_grid", delta, ticked.times_finished_this_tick,
                           just_finished(ticked))
           /\ pre_step' = (IF just_finished(ticked) THEN grid.cells ELSE pre_step)
           /\ nsteps' = (IF just_finished(ticked) THEN nsteps + 1 ELSE nsteps)
    /\ pc' = "ready"
    /\ ret' = "none"
    /\ RunInFrame("update_grid")
    /\ UNCHANGED <<nops, sprites, queued, tasks>>

\* The system render_grid, in a frame: it queues a despawn for every entity
\* with a Sprite and a spawn for the sprite of every cell that is not BLACK.
\* The world is as it was when the system returns.
FrameRenderGrid ==
    /\ pc = "ready"
    /\ grid.size = GRID_SIZE
    /\ "render_grid" \notin ran
    /\ queued' = [despawn |-> sprites, spawn |-> render_grid(grid)]
    /\ last' = Call("render_grid", 0, 0, FALSE)
    /\ pc' = "ready"
    /\ ret' = "none"
    /\ RunInFrame("render_grid")
    /\ UNCHANGED <<grid, pre_step, nsteps, nops, timer, sprites, tasks>>

\* The system handle_clicks, in a frame.
FrameHandleClicks(just_pressed, has_window, cursor) ==
    /\ pc = "ready"
    /\ grid.size = GRID_SIZE
    /\ "handle_clicks" \notin ran
    /\ LET reached == just_pressed /\ has_window /\ cursor # NoCursor
       IN  last' = Call("handle_clicks",
                        IF reached THEN GridX(cursor[1]) ELSE 0,
                        IF reached THEN GridY(cursor[2]) ELSE 0,
                        reached)
    /\ grid' = handle_clicks(grid, just_pressed, has_window, cursor)
    /\ pc' = "ready"
    /\ ret' = "none"
    /\ RunInFrame("handle_clicks")
    /\ UNCHANGED <<pre_step, nsteps, nops, timer, sprites, queued, tasks>>

\* The end of a frame: the three systems have run, and the schedule applies
\* the commands they queued, the despawns and then the spawns.
ApplyCommands ==
    /\ pc = "ready"
    /\ ran = Systems
    /\ sprites' = (sprites \ queued.despawn) \cup queued.spawn
    /\ queued' = NoCommands
    /\ ran' = {}
    /\ frames' = frames + 1
    /\ last' = Call("apply_commands", 0, 0, FALSE)
    /\ ret' = "none"
    /\ UNCHANGED <<pc, grid, pre_step, nsteps, nops, timer, tasks>>

\* ------------------------------------------------------------ Spec
\* Every sequence of calls of the methods of Grid on a grid of size at most
\* MaxSize, and every sequence of steps and clicks on the grid of the
\* program, of size GRID_SIZE, after setup.

\* The coordinates the accessors are called with: every in-range one of the
\* small grids, and at least one past the edge.
Coords == 0..MaxSize

Sizes == (0..MaxSize) \cup {GRID_SIZE}

\* What setup draws on the grid of the program: nothing, the blinker
\* (1,2), (2,2), (3,2), or the block in the corner (0,0).
AppSeeds ==
    {{},
     {2 * GRID_SIZE + 1, 2 * GRID_SIZE + 2, 2 * GRID_SIZE + 3},
     {0, 1, GRID_SIZE, GRID_SIZE + 1}}

\* Cursor pixels: the middle of columns 0, 2 and 49 and of rows 0, 2 and 49,
\* and the top pixel row, whose cell is row GRID_SIZE, above the grid.
CursorXs == {10, 50, 990}

CursorYs == {713, 684, 7, 0}

Clicks ==
    {<<TRUE, TRUE, <<cx, cy>>>> : cx \in CursorXs, cy \in CursorYs}
        \cup {<<FALSE, TRUE, <<10, 713>>>>, <<TRUE, FALSE, NoCursor>>,
              <<TRUE, TRUE, NoCursor>>}

\* A grid the methods are called on directly.
ApiGrid == grid.size <= MaxSize

\* The grid of the program, once the startup system has run.
Started == grid.size = GRID_SIZE /\ last.op # "new"

Budget == nops < (IF grid.size = GRID_SIZE THEN MaxAppOps ELSE MaxOps)

Next ==
    \/ \E n \in Sizes : New(n)
    \/ grid.size = GRID_SIZE /\ \E alive \in AppSeeds : Setup(alive)
    \/ ApiGrid /\ \E x \in Coords, y \in Coords : Get(x, y)
    \/ ApiGrid /\ \E x \in Coords, y \in Coords : GetColor(x, y)
    \/ ApiGrid /\ Budget
          /\ \E x \in Coords, y \in Coords, value \in BOOLEAN : Set(x, y, value)
    \/ ApiGrid /\ Budget /\ \E x \in Coords, y \in Coords : Toggle(x, y)
    \/ (ApiGrid \/ Started) /\ Budget /\ Step
    \/ Started /\ Budget /\ \E c \in Clicks : HandleClicks(c[1], c[2], c[3])

Spec == Init /\ [][Next]_vars

\* ------------------------------------------------------------ LifeSpec
\* Generations of every pattern setup can write on a small grid.

RECURSIVE AtMost(_, _)
\* The subsets of S of at most k elements.
AtMost(S, k) ==
    IF k = 0 THEN {{}}
    ELSE LET smaller == AtMost(S, k - 1)
         IN  smaller \cup {s \cup {e} : s \in smaller, e \in S}

\* The 2 x 2 blocks of a grid of size n, as sets of indices.
Blocks(n) ==
    {{y * n + x, y * n + x + 1, (y + 1) * n + x, (y + 1) * n + x + 1} :
        x \in 0..(n - 2), y \in 0..(n - 2)}

\* The lines of three cells of a grid of size n, along a row or a column.
Lines(n) ==
    {{y * n + x, y * n + x + 1, y * n + x + 2} : x \in 0..(n - 3), y \in 0..(n - 1)}
        \cup {{y * n + x, (y + 1) * n + x, (y + 2) * n + x} :
                 x \in 0..(n - 1), y \in 0..(n - 3)}

\* What setup draws: a sparse pattern, a dense one, a block or a line.
Seeds(n) ==
    LET all == 0..(n * n - 1)
    IN  AtMost(all, MaxLive) \cup {all \ dead : dead \in AtMost(all, MaxDead)}
            \cup Blocks(n) \cup Lines(n)

LifeNext ==
    \/ \E n \in 0..MaxLifeSize : New(n)
    \/ last.op = "new" /\ \E alive \in Seeds(grid.size) : Setup(alive)
    \/ nsteps < MaxGens /\ Step
    \/ RenderGrid

LifeSpec == Init /\ [][LifeNext]_vars

\* ------------------------------------------------------------ AppSpec
\* The program: main inserts Grid::new(GRID_SIZE) and the TickTimer, setup
\* runs once, and then every frame runs update_grid, render_grid and
\* handle_clicks, in any order, and applies the queued commands at its end.

\* A Duration of n milliseconds, in nanoseconds.
Millis(n) == n * 1000000

\* time.delta() of a frame: 50 ms, half of a tenth of a second, and 250 ms.
Deltas == {Millis(50), Millis(250)}

\* The input of a frame: no button pressed, or a click in cell (2, 2).
FrameClicks == {<<FALSE, TRUE, <<50, 684>>>>, <<TRUE, TRUE, <<50, 684>>>>}

\* What setup draws: nothing, or the blinker (1,2), (2,2), (3,2).
FrameSeeds == {{}, {2 * GRID_SIZE + 1, 2 * GRID_SIZE + 2, 2 * GRID_SIZE + 3}}

\* The systems that have run since startup.
Runs == Cardinality(Systems) * frames + Cardinality(ran)

AppNext ==
    \/ New(GRID_SIZE)
    \/ \E alive \in FrameSeeds : Setup(alive)
    \/ Started /\ Runs < MaxRuns /\ \E delta \in Deltas : FrameUpdateGrid(delta)
    \/ Started /\ Runs < MaxRuns /\ FrameRenderGrid
    \/ Started /\ Runs < MaxRuns
          /\ \E c \in FrameClicks : FrameHandleClicks(c[1], c[2], c[3])
    \/ Started /\ ApplyCommands

AppSpec == Init /\ [][AppNext]_vars

\* ------------------------------------------------------------ SchedSpec
\* A frame of the program with every system taken one statement at a time:
\* the schedule decides which systems may be in progress together, and a
\* system in progress takes its next step whenever it is chosen.

\* The access to the Grid every system declares to the schedule, with
\* Res<Grid> for the ResMut<Grid> of update_grid and handle_clicks: systems
\* that write the grid through a handle declared read-only.
Access_read_only ==
    [system \in Systems |-> "Res"]

\* The access to the Grid every system declares to the schedule in its
\* parameters: `mut grid: ResMut<Grid>` or `grid: Res<Grid>`.
Access ==
    [system \in Systems |-> IF system = "render_grid" THEN "Res" ELSE "ResMut"]

\* Two systems conflict when one of them declares the Grid mutable.
Conflict(a, b) == Access[a] = "ResMut" \/ Access[b] = "ResMut"

\* The schedule starts a system once in a frame, and never while a system
\* that conflicts with it is in progress.
CanStart(system) ==
    /\ pc = "ready"
    /\ grid.size = GRID_SIZE
    /\ system \notin ran
    /\ system \notin DOMAIN tasks
    /\ \A other \in DOMAIN tasks : ~Conflict(system, other)

\* tasks with the system in progress, locals being its local variables.
WithTask(system, locals) ==
    [t \in DOMAIN tasks \cup {system} |-> IF t = system THEN locals ELSE tasks[t]]

\* tasks without the system.
WithoutTask(system) == [t \in DOMAIN tasks \ {system} |-> tasks[t]]

\* Whether the system is in progress.
InProgress(system) == system \in DOMAIN tasks

\* update_grid up to the test of its `if`: the timer is ticked, and the
\* system returns at once when it has not just finished.
UpdateBegin(delta) ==
    /\ CanStart("update_grid")
    /\ LET ticked == tick(timer, delta)
       IN  /\ timer' = ticked
           /\ IF just_finished(ticked)
              THEN /\ tasks' = WithTask("update_grid",
                                        [phase |-> "called", new_cells |-> <<>>,
                                         delta |-> delta, from |-> grid])
                   /\ UNCHANGED <<last, ran>>
              ELSE /\ last' = Call("update_grid", delta, 0, FALSE)
                   /\ ran' = ran \cup {"update_grid"}
                   /\ UNCHANGED tasks
    /\ UNCHANGED <<pc, grid, ret, pre_step, nsteps, nops, sprites, frames, queued>>

\* step, its two loops: new_cells is computed from the grid as it is now.
StepCompute ==
    /\ InProgress("update_grid")
    /\ tasks["update_grid"].phase = "called"
    /\ tasks' = [tasks EXCEPT !["update_grid"].phase = "computed",
                              !["update_grid"].new_cells = NewCells(grid)]
    /\ UNCHANGED <<pc, grid, last, ret, pre_step, nsteps, nops, timer, sprites,
                   ran, frames, queued>>

\* step, `self.prev_cells = self.cells.clone();`
StepSavePrev ==
    /\ InProgress("update_grid")
    /\ tasks["update_grid"].phase = "computed"
    /\ grid' = [grid EXCEPT !.prev_cells = grid.cells]
    /\ pre_step' = grid.cells
    /\ tasks' = [tasks EXCEPT !["update_grid"].phase = "saved"]
    /\ UNCHANGED <<pc, last, ret, nsteps, nops, timer, sprites, ran, frames,
                   queued>>

\* step, `self.cells = new_cells;`, and the return of update_grid.
StepAssign ==
    /\ InProgress("update_grid")
    /\ tasks["update_grid"].phase = "saved"
    /\ grid' = [grid EXCEPT !.cells = tasks["update_grid"].new_cells]
    /\ nsteps' = nsteps + 1
    /\ last' = Call("update_grid", tasks["update_grid"].delta,
                    timer.times_finished_this_tick, TRUE)
    /\ tasks' = WithoutTask("update_grid")
    /\ ran' = ran \cup {"update_grid"}
    /\ UNCHANGED <<pc, ret, pre_step, nops, timer, sprites, frames, queued>>

\* handle_clicks up to its loops: the three tests and the bounds test of the
\* centre; the system returns at once when one of them fails.
ClickBegin(just_pressed, has_window, cursor) ==
    /\ CanStart("handle_clicks")
    /\ LET reached == just_pressed /\ has_window /\ cursor # NoCursor
           grid_x == IF reached THEN GridX(cursor[1]) ELSE 0
           grid_y == IF reached THEN GridY(cursor[2]) ELSE 0
       IN  IF reached /\ InGrid(grid_x, grid_y)
           THEN /\ tasks' = WithTask("handle_clicks",
                                     [k |-> 1, grid_x |-> grid_x,
                                      grid_y |-> grid_y, from |-> grid])
                /\ UNCHANGED <<last, ran>>
           ELSE /\ last' = Call("handle_clicks", grid_x, grid_y, reached)
                /\ ran' = ran \cup {"handle_clicks"}
                /\ UNCHANGED tasks
    /\ UNCHANGED <<pc, grid, ret, pre_step, nsteps, nops, timer, sprites, frames,
                   queued>>

\* One pass of the inner loop of handle_clicks: the k-th offset.
ClickToggle ==
    /\ InProgress("handle_clicks")
    /\ LET my == tasks["handle_clicks"]
           offs == Offsets(CLICK_RADIUS)
       IN  /\ my.k <= Len(offs)
           /\ LET nx == my.grid_x + offs[my.k][1]
                  ny == my.grid_y + offs[my.k][2]
              IN  grid' = (IF InGrid(nx, ny) THEN toggle(grid, nx, ny) ELSE grid)
           /\ tasks' = [tasks EXCEPT !["handle_clicks"].k = my.k + 1]
    /\ UNCHANGED <<pc, last, ret, pre_step, nsteps, nops, timer, sprites, ran,
                   frames, queued>>

\* The loops of handle_clicks are over: it returns.
ClickEnd ==
    /\ InProgress("handle_clicks")
    /\ LET my == tasks["handle_clicks"]
       IN  /\ my.k > Len(Offsets(CLICK_RADIUS))
           /\ last' = Call("handle_clicks", my.grid_x, my.grid_y, TRUE)
    /\ tasks' = WithoutTask("handle_clicks")
    /\ ran' = ran \cup {"handle_clicks"}
    /\ UNCHANGED <<pc, grid, ret, pre_step, nsteps, nops, timer, sprites, frames,
                   queued>>

\* render_grid, its first loop: a despawn is queued for every entity with a
\* Sprite.
RenderBegin ==
    /\ CanStart("render_grid")
    /\ tasks' = WithTask("render_grid",
                         [x |-> 0, despawn |-> sprites, spawn |-> {},
                          from |-> grid])
    /\ UNCHANGED <<pc, grid, last, ret, pre_step, nsteps, nops, timer, sprites,
                   ran, frames, queued>>

\* One pass of the outer loop of render_grid: a spawn is queued for every
\* cell of column x whose colour, as the grid is now, is not BLACK.
RenderColumn ==
    /\ InProgress("render_grid")
    /\ LET my == tasks["render_grid"]
       IN  /\ my.x < grid.size
           /\ tasks' =
                [tasks EXCEPT
                    !["render_grid"].x = my.x + 1,
                    !["render_grid"].spawn =
                        my.spawn \cup
                            {[x |-> my.x, y |-> y, color |-> get_color(grid, my.x, y)] :
                                y \in {r \in 0..(grid.size - 1) :
                                          get_color(grid, my.x, r) # "BLACK"}}]
    /\ UNCHANGED <<pc, grid, last, ret, pre_step, nsteps, nops, timer, sprites,
                   ran, frames, queued>>

\* The loops of render_grid are over: it returns, its commands queued.
RenderEnd ==
    /\ InProgress("render_grid")
    /\ LET my == tasks["render_grid"]
       IN  /\ my.x = grid.size
           /\ queued' = [despawn |-> my.despawn, spawn |-> my.spawn]
    /\ last' = Call("render_grid", 0, 0, FALSE)
    /\ tasks' = WithoutTask("render_grid")
    /\ ran' = ran \cup {"render_grid"}
    /\ UNCHANGED <<pc, grid, ret, pre_step, nsteps, nops, timer, sprites, frames>>

\* The systems started since startup.
Starts == Runs + Cardinality(DOMAIN tasks)

SchedNext ==
    \/ New(GRID_SIZE)
    \/ \E alive \in FrameSeeds : Setup(alive)
    \/ Started /\ Starts < MaxSchedRuns /\ \E delta \in Deltas : UpdateBegin(delta)
    \/ StepCompute
    \/ StepSavePrev
    \/ StepAssign
    \/ Started /\ Starts < MaxSchedRuns
          /\ \E c \in FrameClicks : ClickBegin(c[1], c[2], c[3])
    \/ ClickToggle
    \/ ClickEnd
    \/ Started /\ Starts < MaxSchedRuns /\ RenderBegin
    \/ RenderColumn
    \/ RenderEnd
    \/ Started /\ ApplyCommands

SchedSpec == Init /\ [][SchedNext]_vars

\* ------------------------------------------------------------ properties

\* The indices of the live cells of a vector.
Live(c) == {i \in DOMAIN c : c[i]}

\* The live cells of c, a grid of size n, among the eight positions around
\* (x, y) that lie on the grid.
LiveAround(c, n, x, y) ==
    Cardinality({p \in ((x - 1)..(x + 1)) \X ((y - 1)..(y + 1)) :
                    /\ p # <<x, y>>
                    /\ p[1] \in 0..(n - 1)
                    /\ p[2] \in 0..(n - 1)
                    /\ c[p[2] * n + p[1]]})

\* The classification of a cell that was `before` and is `now`.
Classify(before, now) ==
    IF now THEN (IF before THEN "WHITE" ELSE "GREEN")
    ELSE (IF before THEN "RED" ELSE "BLACK")

\* C1: once step has run, prev_cells is the value cells had just before the
\* most recent step, whatever set, toggle and click calls came before or
\* after it.
C1_PrevCellsIsPreStep ==
    nsteps > 0 => grid.prev_cells = pre_step

\* A cell was made live, step ran, and a later toggle changed cells: the
\* generation before the step is still what prev_cells holds.
C1_Witness ==
    /\ nsteps > 0
    /\ last.op = "toggle"
    /\ pc = "ready"
    /\ Live(grid.prev_cells) # {}
    /\ Live(grid.cells) # {}

\* C2: after step, a cell is live iff it was live with exactly two live
\* neighbours, or had exactly three, liveness and counts being those of the
\* cells before the step.
C2_StepRule ==
    last.op = "step" =>
        \A x \in 0..(grid.size - 1), y \in 0..(grid.size - 1) :
            LET i == y * grid.size + x
                n == LiveAround(pre_step, grid.size, x, y)
            IN  grid.cells[i] = ((pre_step[i] /\ n = 2) \/ n = 3)

\* A step in which a cell was born, a cell died and a cell survived.
C2_Witness ==
    /\ last.op = "step"
    /\ Live(grid.cells) \ Live(pre_step) # {}
    /\ Live(pre_step) \ Live(grid.cells) # {}
    /\ Live(pre_step) \cap Live(grid.cells) # {}

\* C3: neighbors(x, y) is the number of live cells among the positions
\* around (x, y) that lie on the grid, never (x, y) itself, never a cell of
\* the opposite edge or of the next row, and it is in 0..8.
C3_NeighborsHardEdges ==
    pc = "ready" =>
        \A x \in 0..(grid.size - 1), y \in 0..(grid.size - 1) :
            LET count == neighbors(grid, x, y)
            IN  /\ count = LiveAround(grid.cells, grid.size, x, y)
                /\ count \in 0..8

\* On a 3 x 3 grid the live cells are (2, 0), at the end of its row, and
\* (0, 1), the cell after it in the vector and the start of the next row:
\* neither counts the other.
C3_Witness ==
    /\ pc = "ready"
    /\ grid.size = 3
    /\ Live(grid.cells) = {2, 3}
    /\ neighbors(grid, 2, 0) = 0
    /\ neighbors(grid, 0, 1) = 0

\* C4: a get, set or toggle with x >= size or y >= size ends in an error
\* and leaves cells and prev_cells as they were.
C4_OutOfRangeFails ==
    [][(/\ last'.op \in {"get", "set", "toggle"}
        /\ (last'.x >= grid.size \/ last'.y >= grid.size))
        => (pc' = "panicked" /\ grid' = grid)]_vars

\* C5: a click whose centre is on the grid toggles the cells of the grid at
\* distance at most CLICK_RADIUS from the centre on both axes, each once, the
\* centre included, and nothing else; prev_cells is unchanged and the call
\* returns.
C5_ClickSquare ==
    [][(/\ last'.op = "handle_clicks"
        /\ last'.v
        /\ last'.x \in 0..(GRID_SIZE - 1)
        /\ last'.y \in 0..(GRID_SIZE - 1))
        => /\ pc' = "ready"
           /\ grid'.size = grid.size
           /\ grid'.prev_cells = grid.prev_cells
           /\ DOMAIN grid'.cells = DOMAIN grid.cells
           /\ \A i \in DOMAIN grid.cells :
                LET x == i % GRID_SIZE
                    y == i \div GRID_SIZE
                    inside == /\ x \in (last'.x - CLICK_RADIUS)..(last'.x + CLICK_RADIUS)
                              /\ y \in (last'.y - CLICK_RADIUS)..(last'.y + CLICK_RADIUS)
                IN  grid'.cells[i] = (grid.cells[i] # inside)]_vars

\* A click at the corner (0, 0) of the fresh 50 x 50 grid: the nine cells
\* with x, y in 0..2 are live and no others.
C5_Witness ==
    /\ last.op = "handle_clicks"
    /\ last.v
    /\ last.x = 0
    /\ last.y = 0
    /\ nops = 1
    /\ Live(grid.cells) = {y * GRID_SIZE + x : x \in 0..2, y \in 0..2}
    /\ Cardinality(Live(grid.cells)) = 9

\* C6: no Grid of size 0 is constructed.
C6_NoEmptyGrid ==
    pc # "start" => grid.size > 0

\* C7: toggle(x, y) with x, y < size flips cell (x, y) and changes nothing
\* else, and a second toggle(x, y) gives back the grid before the first.
C7_ToggleFlipsOne ==
    [][(/\ last'.op = "toggle"
        /\ last'.x < grid.size
        /\ last'.y < grid.size)
        => /\ pc' = "ready"
           /\ grid'.size = grid.size
           /\ grid'.prev_cells = grid.prev_cells
           /\ DOMAIN grid'.cells = DOMAIN grid.cells
           /\ \A i \in DOMAIN grid.cells :
                grid'.cells[i] =
                    (IF i = last'.y * grid.size + last'.x
                     THEN ~grid.cells[i] ELSE grid.cells[i])
           /\ toggle(grid', last'.x, last'.y) = grid]_vars

\* The third of three toggles made a live cell dead again, on a grid with
\* another live cell.
C7_Witness ==
    /\ last.op = "toggle"
    /\ pc = "ready"
    /\ nops = 3
    /\ last.x < grid.size
    /\ last.y < grid.size
    /\ ~grid.cells[last.y * grid.size + last.x]
    /\ Live(grid.cells) # {}

\* The blinker of the 5 x 5 grid: (1,2), (2,2), (3,2) and (2,1), (2,2), (2,3).
BlinkerRow == {2 * 5 + 1, 2 * 5 + 2, 2 * 5 + 3}

BlinkerColumn == {1 * 5 + 2, 2 * 5 + 2, 3 * 5 + 2}

\* C8: on the 5 x 5 grid a step from the row gives the column and a step
\* from the column gives the row, and prev_cells is then the other one.
C8_Blinker ==
    (grid.size = 5 /\ last.op = "step") =>
        /\ Live(pre_step) = BlinkerRow =>
              Live(grid.cells) = BlinkerColumn /\ Live(grid.prev_cells) = BlinkerRow
        /\ Live(pre_step) = BlinkerColumn =>
              Live(grid.cells) = BlinkerRow /\ Live(grid.prev_cells) = BlinkerColumn

\* Setup wrote the row and three steps ran: the column, the row before it.
C8_Witness ==
    /\ grid.size = 5
    /\ nsteps = 3
    /\ Live(grid.cells) = BlinkerColumn
    /\ Live(grid.prev_cells) = BlinkerRow

\* C9: a grid whose live cells are one 2 x 2 block is unchanged by step.
C9_BlockStill ==
    (last.op = "step" /\ Live(pre_step) \in Blocks(grid.size)) =>
        grid.cells = pre_step

\* Three steps of the block in the corner (3..4, 3..4) of the 5 x 5 grid.
C9_Witness ==
    /\ grid.size = 5
    /\ nsteps = 3
    /\ last.op = "step"
    /\ Live(grid.cells) = {18, 19, 23, 24}
    /\ Live(pre_step) = {18, 19, 23, 24}

\* C10: right after a step the colour of every cell is the classification
\* of its values before and after the step: GREEN iff born, RED iff died,
\* WHITE iff alive before and after, BLACK iff dead before and after; and
\* reading the colours (render_grid calls get_color on every cell) leaves
\* cells and prev_cells as they are.
C10_ColorAfterStep ==
    [][/\ last'.op = "step" =>
            \A x \in 0..(grid.size - 1), y \in 0..(grid.size - 1) :
                LET i == y * grid.size + x
                IN  get_color(grid', x, y) = Classify(grid.cells[i], grid'.cells[i])
       /\ last'.op = "render_grid" =>
            /\ grid' = grid
            /\ last.op = "step" =>
                  \A x \in 0..(grid.size - 1), y \in 0..(grid.size - 1) :
                      LET i == y * grid.size + x
                          color == Classify(pre_step[i], grid.cells[i])
                      IN  /\ color # "BLACK" => [x |-> x, y |-> y, color |-> color] \in ret'
                          /\ \A s \in ret' : (s.x = x /\ s.y = y) => s.color = color]_vars

\* The colours were read right after a step in which a cell was born, a cell
\* died and a cell stayed alive: sprites of the three colours.
C10_Witness ==
    /\ last.op = "render_grid"
    /\ nsteps > 0
    /\ {s.color : s \in ret} = {"GREEN", "RED", "WHITE"}
    /\ Cardinality(ret) < grid.size * grid.size

\* C12: size is the value Grid::new was given and never changes, and cells
\* and prev_cells have the indices 0..size*size-1, so length size*size, after
\* every new, set, toggle, click, step, read and panic.
C12_LengthsFixed ==
    [][/\ last'.op = "new" => grid'.size = last'.x
       /\ pc # "start" => grid'.size = grid.size
       /\ DOMAIN grid'.cells = 0..(grid'.size * grid'.size - 1)
       /\ DOMAIN grid'.prev_cells = 0..(grid'.size * grid'.size - 1)
       /\ VecLen(grid'.cells) = grid'.size * grid'.size
       /\ VecLen(grid'.prev_cells) = grid'.size * grid'.size]_vars

\* A step and then a click on the grid of the program: 2500 cells in each
\* vector, some of them live.
C12_Witness ==
    /\ grid.size = GRID_SIZE
    /\ nsteps = 1
    /\ nops = 2
    /\ last.op = "handle_clicks"
    /\ last.v
    /\ Live(grid.cells) # {}
    /\ VecLen(grid.cells) = GRID_SIZE * GRID_SIZE
    /\ VecLen(grid.prev_cells) = GRID_SIZE * GRID_SIZE

\* C14: a run of handle_clicks with the button not just pressed, without a
\* primary window, without a cursor position, or with a centre outside
\* 0..GRID_SIZE-1 on either axis leaves cells and prev_cells as they were.
C14_UnmappedClickIgnored ==
    [][(/\ last'.op = "handle_clicks"
        /\ ~(/\ last'.v
             /\ last'.x \in 0..(GRID_SIZE - 1)
             /\ last'.y \in 0..(GRID_SIZE - 1)))
        => /\ pc' = "ready"
           /\ grid'.cells = grid.cells
           /\ grid'.prev_cells = grid.prev_cells
           /\ grid'.size = grid.size]_vars

\* After a click that made cells live, a click in the top pixel row, whose
\* centre is (49, GRID_SIZE): rows 48 and 49 are within CLICK_RADIUS of it
\* and are still dead.
C14_Witness ==
    /\ last.op = "handle_clicks"
    /\ last.v
    /\ last.x = GRID_SIZE - 1
    /\ last.y = GRID_SIZE
    /\ nops = 2
    /\ Live(grid.cells) = {y * GRID_SIZE + x : x \in 0..2, y \in 0..2}

\* The generation after c, a grid of size n: a function of n and c alone.
NextGen(n, c) ==
    [i \in 0..(n * n - 1) |->
        LET k == LiveAround(c, n, i % n, i \div n)
        IN  (c[i] /\ k = 2) \/ k = 3]

\* The click of FrameClicks that is a press, in cell (2, 2).
Press == <<50, 684>>

\* C11: the cells a step leaves are a function of the size and of the cells
\* just before it, prev_cells playing no part: whatever the generations and
\* clicks before, update_grid leaves NextGen of the cells it found, the
\* cells a click toggled since the step before included.
C11_StepReadsCellsOnly ==
    [][(last'.op = "update_grid" /\ last'.v)
        => grid'.cells = NextGen(grid.size, grid.cells)]_vars

\* Setup drew the blinker, a step ran, a click toggled the square around
\* (2, 2), and a second step ran: it left the generation after the toggled
\* cells, which is not the one after the output of the first step, and is
\* the one a grid of the same cells and no history would give.
C11_Witness ==
    /\ nsteps = 2
    /\ last.op = "update_grid"
    /\ last.v
    /\ Cardinality(Live(grid.prev_cells)) = 25 - 3
    /\ LET g1 == step(setup(new(GRID_SIZE), {2 * GRID_SIZE + 1, 2 * GRID_SIZE + 2,
                                              2 * GRID_SIZE + 3}))
           g2 == handle_clicks(g1, TRUE, TRUE, Press)
       IN  /\ grid.prev_cells = g2.cells
           /\ g2.prev_cells # AllFalse(GRID_SIZE * GRID_SIZE)
           /\ grid.cells # step(g1).cells
           /\ grid.cells = step([g2 EXCEPT !.prev_cells =
                                    AllFalse(GRID_SIZE * GRID_SIZE)]).cells

\* C13: update_grid runs once in a frame and calls step at most once: when
\* the time the timer has accumulated, the delta of the frame included,
\* reaches the duration of the timer, the grid advances by exactly one
\* generation, however many intervals the delta spans; otherwise cells and
\* prev_cells are as they were.  Nothing else in the frame steps the grid.
C13_OneStepPerTick ==
    [][/\ last'.op = "update_grid" =>
            /\ "update_grid" \notin ran
            /\ IF timer.elapsed + last'.x >= TickDuration
               THEN /\ nsteps' = nsteps + 1
                    /\ grid'.prev_cells = grid.cells
                    /\ grid'.cells = NextGen(grid.size, grid.cells)
               ELSE /\ nsteps' = nsteps
                    /\ grid' = grid
       /\ last'.op \in {"render_grid", "handle_clicks", "apply_commands"} =>
            /\ nsteps' = nsteps
            /\ grid'.prev_cells = grid.prev_cells]_vars

\* The first frame lasted 50 ms and left the blinker as setup drew it; the
\* second lasted 250 ms, so that the timer, at 300 ms, finished twice in it:
\* the grid is one generation on, the column (2,1), (2,2), (2,3) after the
\* row.
C13_Witness ==
    /\ last.op = "update_grid"
    /\ last.x = Millis(250)
    /\ last.y = 2
    /\ last.v
    /\ frames >= 1
    /\ nsteps = 1
    /\ Live(grid.cells) = {1 * GRID_SIZE + 2, 2 * GRID_SIZE + 2, 3 * GRID_SIZE + 2}
    /\ Live(grid.prev_cells) = {2 * GRID_SIZE + 1, 2 * GRID_SIZE + 2, 2 * GRID_SIZE + 3}

\* The sprites of the cells of a grid of size n whose cells are now and
\* were before: one for every cell that is not BLACK.
CellSprites(n, before, now) ==
    {[x |-> i % n, y |-> i \div n, color |-> Classify(before[i], now[i])] :
        i \in {j \in 0..(n * n - 1) : before[j] \/ now[j]}}

\* The system returns in this step.
Returns(system) == system \in ran' \ ran

\* handle_clicks is in the middle of its square: it has run some passes of
\* its loops and not all.
ClickPartWay ==
    /\ InProgress("handle_clicks")
    /\ tasks["handle_clicks"].k \in 2..Len(Offsets(CLICK_RADIUS))

\* update_grid is in the middle of step: it has read the cells and not yet
\* replaced both vectors.
StepPartWay ==
    /\ InProgress("update_grid")
    /\ tasks["update_grid"].phase \in {"computed", "saved"}

Untouched == pc # "start" /\ Border \notin sprites /\ nops = nsteps

\* C16: on a grid made by Grid::new(N), N >= 1, and not written by a set, a
\* toggle or a click since, every cell is false in cells and in prev_cells,
\* get(x, y) returns false and get_color(x, y) BLACK for every x, y < N.
C16_FreshGridDead ==
    (Untouched /\ grid.size >= 1) =>
        /\ \A x \in 0..(grid.size - 1), y \in 0..(grid.size - 1) :
              /\ ~get(grid, x, y)
              /\ ~grid.prev_cells[y * grid.size + x]
              /\ get_color(grid, x, y) = "BLACK"
        /\ (pc = "observed" /\ last.x < grid.size /\ last.y < grid.size) =>
              /\ last.op = "get" => ret = FALSE
              /\ last.op = "get_color" => ret = "BLACK"

\* get_color(1, 1) on the grid Grid::new(2) returned: BLACK.
C16_Witness ==
    /\ pc = "observed"
    /\ Untouched
    /\ nops = 0
    /\ grid.size = 2
    /\ last.op = "get_color"
    /\ last.x = 1
    /\ last.y = 1
    /\ ret = "BLACK"

\* C17: a render pass spawns a sprite at (x, y) iff the cell is not DEAD,
\* that is iff it is live or was live before the last step, and the sprite
\* has the colour of its classification; so a cell that died in the last
\* step has a (RED) sprite though it is false now, and a cell false now and
\* before has none.  There is one sprite for a cell at most, no other
\* sprite is spawned, and every sprite of the world is despawned.
C17_RenderDrawsNonDead ==
    last.op = "render_grid" =>
        /\ queued.despawn = sprites
        /\ \A x \in 0..(grid.size - 1), y \in 0..(grid.size - 1) :
              LET i == y * grid.size + x
                  drawn == {s \in queued.spawn : s.x = x /\ s.y = y}
              IN  IF grid.cells[i] \/ grid.prev_cells[i]
                  THEN drawn = {[x |-> x, y |-> y,
                                 color |-> Classify(grid.prev_cells[i], grid.cells[i])]}
                  ELSE drawn = {}
        /\ \A s \in queued.spawn :
              s.x \in 0..(grid.size - 1) /\ s.y \in 0..(grid.size - 1)

\* The grid after setup drew nothing, a click toggled the square around
\* (2, 2) and a step ran, and the grid one more step on.
AfterClickAndStep ==
    step(handle_clicks(setup(new(GRID_SIZE), {}), TRUE, TRUE, Press))

AfterClickAndTwoSteps == step(AfterClickAndStep)

\* Two frames, each with a step and then a render pass, after a click on the
\* empty grid: cell (2, 2) died in the first step and the world holds the
\* RED sprite the first pass drew for it; it stayed dead in the second step
\* and the second pass spawns none for it, while a cell that died in the
\* second step gets a RED one.
C17_Witness ==
    /\ last.op = "render_grid"
    /\ frames = 1
    /\ nsteps = 2
    /\ grid = AfterClickAndTwoSteps
    /\ AfterClickAndStep.prev_cells[2 * GRID_SIZE + 2]
    /\ get_color(AfterClickAndStep, 2, 2) = "RED"
    /\ [x |-> 2, y |-> 2, color |-> "RED"] \in sprites
    /\ ~grid.cells[2 * GRID_SIZE + 2]
    /\ \A s \in queued.spawn : ~(s.x = 2 /\ s.y = 2)
    /\ \E s \in queued.spawn :
          s.color = "RED" /\ ~grid.cells[s.y * GRID_SIZE + s.x]

\* The cursor pixels of the second click C18 compares orders with: cells
\* (0, 0), (2, 2), whose squares overlap, and (49, 49).
Seconds == {<<10, 713>>, <<50, 684>>, <<990, 7>>}

\* C18: a click with its centre on the grid is undone by a second click at
\* the same centre (cells and prev_cells are those before the first), and
\* two clicks give the same grid in either order; a step after a click is
\* computed from the toggled cells.
C18_ClickInvolutionCommutes ==
    [][/\ (/\ last'.op = "handle_clicks"
           /\ last'.v
           /\ InGrid(last'.x, last'.y)) =>
              \A a \in {c \in CursorXs \X CursorYs :
                            GridX(c[1]) = last'.x /\ GridY(c[2]) = last'.y} :
                  /\ handle_clicks(grid', TRUE, TRUE, a) = grid
                  /\ \A b \in Seconds :
                        handle_clicks(grid', TRUE, TRUE, b)
                            = handle_clicks(handle_clicks(grid, TRUE, TRUE, b),
                                            TRUE, TRUE, a)
       /\ (last'.op = "step" /\ last.op = "handle_clicks") =>
              /\ grid'.prev_cells = grid.cells
              /\ grid'.cells = NextGen(grid.size, grid.cells)]_vars

\* On the empty grid a click at (0, 0) and then one at (2, 2): the 16 cells
\* of the second square that are not in the first are live, as after the
\* two clicks in the other order.
C18_Witness ==
    /\ last.op = "handle_clicks"
    /\ last.v
    /\ last.x = 2
    /\ last.y = 2
    /\ nops = 2
    /\ nsteps = 0
    /\ Live(grid.cells) = {y * GRID_SIZE + x : x \in 0..4, y \in 0..4}
                              \ {y * GRID_SIZE + x : x \in 0..2, y \in 0..2}
    /\ grid = handle_clicks(handle_clicks(setup(new(GRID_SIZE), {}),
                                          TRUE, TRUE, <<50, 684>>),
                            TRUE, TRUE, <<10, 713>>)

\* C19: in the program, as long as no step has run, prev_cells is all false
\* whatever setup drew and whatever was clicked, so every cell is GREEN
\* (live) or BLACK (dead), never RED or WHITE, and so are the sprites a
\* render pass queues and those of the cells in the world.
C19_NoHistoryBeforeFirstStep ==
    (pc = "ready" /\ nsteps = 0) =>
        /\ grid.prev_cells = AllFalse(grid.size * grid.size)
        /\ \A x \in 0..(grid.size - 1), y \in 0..(grid.size - 1) :
              get_color(grid, x, y)
                  = (IF grid.cells[y * grid.size + x] THEN "GREEN" ELSE "BLACK")
        /\ \A s \in queued.spawn \cup (sprites \ {Border}) : s.color = "GREEN"

\* Setup drew the blinker, and in the first frame, too short for a step, a
\* click toggled the square around (2, 2) before the render pass: at the
\* end of the frame the world holds 22 sprites, all GREEN.
C19_Witness ==
    /\ nsteps = 0
    /\ frames = 1
    /\ last.op = "apply_commands"
    /\ Cardinality(Live(grid.cells)) = 25 - 3
    /\ Cardinality(sprites) = 25 - 3
    /\ \A s \in sprites : s.color = "GREEN"

\* C20: a step of a grid whose cells are all false leaves cells all false,
\* and prev_cells all false as well (the cells it found), so that every cell
\* is BLACK from then on: no sequence of steps makes a cell live.
C20_DeadStaysDead ==
    (last.op = "step" /\ Live(pre_step) = {}) =>
        /\ Live(grid.cells) = {}
        /\ Live(grid.prev_cells) = {}
        /\ \A x \in 0..(grid.size - 1), y \in 0..(grid.size - 1) :
              get_color(grid, x, y) = "BLACK"

\* Three steps of the 5 x 5 grid on which setup drew nothing.
C20_Witness ==
    /\ grid.size = 5
    /\ last.op = "step"
    /\ nsteps = 3
    /\ Live(pre_step) = {}
    /\ Live(grid.cells) = {}
    /\ Live(grid.prev_cells) = {}

====
